---------------------------- MODULE Spec2Model ----------------------------
(***************************************************************************)
(* A model of the VCAT test vector builder: video discovery, metadata      *)
(* extraction, title derivation, and the four passes (video manifests,     *)
(* playlists, catalog, catalog index) of vcat_testvector_builder.py,       *)
(* together with the standalone catalog and index builders.                *)
(*                                                                         *)
(* Representation.  A Python str is a sequence of pieces (TLA+ strings);   *)
(* concatenation is \o.  The pieces of the model are chosen so that two    *)
(* different piece sequences denote two different Python strings.  A file  *)
(* name is such a string, a path is a sequence of file names.  A Python    *)
(* value that may be None, an int or a str is a tagged record.             *)
(***************************************************************************)
EXTENDS Integers, Sequences, FiniteSets, TLC

VARIABLES
    tree,           \* the input folder: set of entries [path, kind, readable]
    manifest_dir,   \* manifests/ : "absent" or a function file name -> content
    root_files,     \* JSON files directly in the input folder: name -> content
    config,         \* the BuilderConfig of the running build
    stage,          \* position of build(): idle, manifests, playlists, catalog, index
    video_files,    \* build(): videos still to be processed in step 1
    manifest_paths, \* build(): manifests written in step 1
    todo,           \* build(): manifests still to be wrapped in step 2
    playlist_paths, \* build(): playlists written in step 2
    catalog_path,   \* build(): result of generate_catalog, NoPath when None
    last,           \* outcome of the last finished operation
    next_uuid,      \* source of fresh header uuids
    runs,           \* number of runs started so far (also the timestamp)
    listing,        \* the order in which the file system lists directories
    snapshot        \* the output files as the previous build left them

vars == <<tree, manifest_dir, root_files, config, stage, video_files,
          manifest_paths, todo, playlist_paths, catalog_path, last,
          next_uuid, runs, listing, snapshot>>

-----------------------------------------------------------------------------
(* Bounds of the model *)

MaxRuns == 2

MaxIndexLen == 2

MaxVideos == 2

-----------------------------------------------------------------------------
(* Python values *)

PyStr(s) == [s |-> s, t |-> "str"]
PyInt(n) == [t |-> "int", i |-> n]
PyNone == [t |-> "none"]

RECURSIVE IntToStr(_)
IntToStr(n) ==
    IF n < 10 THEN <<[d \in 0..9 |-> <<"0","1","2","3","4","5","6","7","8","9">>[d + 1]][n]>>
    ELSE IntToStr(n \div 10) \o IntToStr(n % 10)

\* str(v) as an f-string renders it
Format(v) ==
    CASE v.t = "str"  -> v.s
      [] v.t = "int"  -> IntToStr(v.i)
      [] v.t = "none" -> <<"None">>

\* s.lower() on the pieces the model uses
Lower(s) == [k \in DOMAIN s |-> IF s[k] = "Unknown" THEN "unknown" ELSE s[k]]

\* needle in haystack, for a needle that is one piece
Contains(haystack, needle) == \E k \in DOMAIN haystack : haystack[k] = needle

Last(s) == s[Len(s)]
Front(s) == SubSeq(s, 1, Len(s) - 1)

RECURSIVE Flatten(_)
Flatten(ss) == IF ss = <<>> THEN <<>> ELSE Head(ss) \o Flatten(Tail(ss))

RECURSIVE Perms(_)
Perms(S) ==
    IF S = {} THEN {<<>>}
    ELSE UNION {{<<x>> \o p : p \in Perms(S \ {x})} : x \in S}

-----------------------------------------------------------------------------
(* Paths and the input folder *)

\* config.input_folder, an absolute path
InputFolder == << <<"vectors">> >>

NoPath == <<>>

\* str(path): the components joined by "/"
RECURSIVE PathStr(_)
PathStr(path) ==
    IF Len(path) = 0 THEN <<>>
    ELSE IF Len(path) = 1 THEN path[1]
    ELSE path[1] \o <<"/">> \o PathStr(Tail(path))

Exts == {".mp4", ".mkv", ".json", ".txt"}

\* Path(video_file).stem: the final component without its last suffix
Stem(name) == IF Len(name) > 1 /\ Last(name) \in Exts THEN Front(name) ELSE name

IsPrefix(p, q) == Len(p) <= Len(q) /\ SubSeq(q, 1, Len(p)) = p

Exists(t, path) == \E e \in t : e.path = path

Entry(t, path) == CHOOSE e \in t : e.path = path

\* os.access(path, os.R_OK | os.X_OK)
Access(t, path) == Exists(t, path) /\ Entry(t, path).readable

-----------------------------------------------------------------------------
(* Video discovery: vcat_testvector_builder.get_video_files_from_folder *)

DS_Store == <<".DS_Store">>
MACOSX == <<"__MACOSX">>

\* the files os.walk yields below top, with the pruning of dirs[:] and the
\* skip of files the loop body applies; a directory that cannot be listed
\* yields nothing (os.walk ignores the error)
RECURSIVE Walk(_, _)
Walk(t, top) ==
    IF ~(Exists(t, top) /\ Entry(t, top).kind = "dir" /\ Entry(t, top).readable)
    THEN {}
    ELSE LET below == {e \in t : Len(e.path) = Len(top) + 1 /\ IsPrefix(top, e.path)}
             dirs == {e.path : e \in {d \in below : d.kind = "dir"
                                        /\ Last(d.path) \notin {DS_Store, MACOSX}}}
             files == {e.path : e \in {f \in below : f.kind = "file"
                                        /\ Last(f.path) # DS_Store}}
         IN  files \cup UNION {Walk(t, d) : d \in dirs}

get_video_files_from_folder(t, media_folder) ==
    IF ~Exists(t, media_folder) THEN [files |-> {}, raised |-> "FileNotFoundError"]
    ELSE IF ~Access(t, media_folder) THEN [files |-> {}, raised |-> "PermissionError"]
    ELSE [files |-> Walk(t, media_folder), raised |-> "none"]

-----------------------------------------------------------------------------
(* Metadata extraction: vcat_testvector_builder.get_video_details           *)
(*                                                                         *)
(* The outcome of subprocess.run(["ffmpeg", "-i", path]) is a record       *)
(*   launch     "ok", or the exception subprocess.run raised               *)
(*   returncode the exit status of the tool                                *)
(*   stderr     what the patterns of get_video_details find in the text:   *)
(*              video        the "Video: <codec>" tags present             *)
(*              durations    the matches of the Duration pattern, in       *)
(*                           order, each four groups of two digits         *)
(*              resolutions  the matches of ", WxH,", in order             *)
(*              fps          the matches of "N(.N)? fps", in order         *)
(***************************************************************************)

\* int(group) of a group of two digits
Int2(g) == 10 * g[1] + g[2]

\* f"{float(text):g}" on the frame rates of the model
FloatG(text) ==
    CASE text = "30.00" -> "30"
      [] text = "25.0"  -> "25"
      [] OTHER          -> text

Unknown4 ==
    [codec |-> PyStr(<<"unknown">>), duration_ms |-> PyStr(<<"unknown">>),
     resolution_x_y |-> PyStr(<<"unknown">>), frame_rate |-> PyStr(<<"unknown">>)]

\* a plausible slip: the centiseconds are added as they are, not as milliseconds
ParseStderrCentis(stderr) ==
    [codec |->
        IF "av1" \in stderr.video THEN PyStr(<<"video/", "av1">>)
        ELSE IF "vp9" \in stderr.video THEN PyStr(<<"video/mp4; codecs=\"", "vp09", "\"">>)
        ELSE IF "vvc" \in stderr.video THEN PyStr(<<"video/mp4; codecs=\"", "vvc", "\"">>)
        ELSE PyStr(<<"Unknown">>),
     duration_ms |->
        IF stderr.durations # <<>>
        THEN LET m == stderr.durations[1]
             IN  PyInt((Int2(m[1]) * 3600 + Int2(m[2]) * 60 + Int2(m[3])) * 1000 + Int2(m[4]))
        ELSE PyNone,
     resolution_x_y |->
        IF stderr.resolutions # <<>>
        THEN PyStr(<<stderr.resolutions[1][1], "X", stderr.resolutions[1][2]>>)
        ELSE PyNone,
     frame_rate |->
        IF stderr.fps # <<>> THEN PyStr(<<FloatG(stderr.fps[1])>>)
        ELSE PyStr(<<"unknown">>)]

ParseStderr(stderr) ==
    [codec |->
        IF "av1" \in stderr.video THEN PyStr(<<"video/", "av1">>)
        ELSE IF "vp9" \in stderr.video THEN PyStr(<<"video/mp4; codecs=\"", "vp09", "\"">>)
        ELSE IF "vvc" \in stderr.video THEN PyStr(<<"video/mp4; codecs=\"", "vvc", "\"">>)
        ELSE PyStr(<<"Unknown">>),
     duration_ms |->
        IF stderr.durations # <<>>
        THEN LET m == stderr.durations[1]
                 hours == Int2(m[1])
                 minutes == Int2(m[2])
                 seconds == Int2(m[3])
                 milliseconds == Int2(m[4]) * 10
             IN  PyInt((hours * 3600 + minutes * 60 + seconds) * 1000 + milliseconds)
        ELSE PyNone,
     resolution_x_y |->
        IF stderr.resolutions # <<>>
        THEN PyStr(<<stderr.resolutions[1][1], "X", stderr.resolutions[1][2]>>)
        ELSE PyNone,
     frame_rate |->
        IF stderr.fps # <<>> THEN PyStr(<<FloatG(stderr.fps[1])>>)
        ELSE PyStr(<<"unknown">>)]

\* a plausible slip: the except branch returns the defaults of the try branch
get_video_details_defaults(probe) ==
    IF probe.launch # "ok"
    THEN [codec |-> PyStr(<<"Unknown">>), duration_ms |-> PyNone,
          resolution_x_y |-> PyNone, frame_rate |-> PyStr(<<"unknown">>)]
    ELSE ParseStderr(probe.stderr)

\* subprocess.run is called without check=True: it raises when the tool
\* cannot be started or its output cannot be read, never on the exit status
get_video_details(probe) ==
    IF probe.launch # "ok" THEN Unknown4 ELSE ParseStderr(probe.stderr)

-----------------------------------------------------------------------------
(* Title derivation: vcat_testvector_builder.generate_header_title *)

generate_header_title(video_file, video_mime_type, resolution_x_y, frame_rate) ==
    LET mime == Lower(Format(video_mime_type))
        tail == Format(resolution_x_y) \o <<"p">> \o Format(frame_rate) \o <<"fps">>
        named ==
            IF Contains(mime, "av1") THEN <<"av1-">> \o tail
            ELSE IF Contains(mime, "vvc") THEN <<"vvc-">> \o tail
            ELSE IF Contains(mime, "vp09") THEN <<"vp9-">> \o tail
            ELSE <<>>
        base_name == IF named = <<>> THEN Stem(Last(video_file)) ELSE named
        whole == PathStr(video_file)
    IN  IF Contains(whole, "fd0") THEN base_name \o <<"-", "fd0">>
        ELSE IF Contains(whole, "fd1") THEN base_name \o <<"-", "fd1">>
        ELSE IF Contains(whole, "fd2") THEN base_name \o <<"-", "fd2">>
        ELSE base_name

-----------------------------------------------------------------------------
(* Files and JSON documents                                                *)
(*                                                                         *)
(* The content of a JSON file is [json |-> "invalid"] (json.loads raises), *)
(* [json |-> "array"] (valid JSON that is no object) or                    *)
(* [json |-> "object", obj |-> r] with r a record of the object's keys.    *)
(* The "catalogs" value of an index is a tagged JSON value: JList(items)   *)
(* or JNull; an item is an object (a record without a field t) or another  *)
(* JSON value (a record with a field t).                                   *)
(***************************************************************************)

Obj(r) == [json |-> "object", obj |-> r]
Invalid == [json |-> "invalid"]
Array == [json |-> "array"]

JList(items) == [t |-> "list", items |-> items]
JNull == [t |-> "null"]
JString(s) == [s |-> s, t |-> "str"]

IsDict(v) == "t" \notin DOMAIN v

NoFiles == [n \in {} |-> Invalid]

Put(f, k, v) == [x \in DOMAIN f \cup {k} |-> IF x = k THEN v ELSE f[x]]

\* utils.getChecksum: the SHA-256 digest of the bytes, taken as collision free
getChecksum(bytes) == [sha256 |-> bytes]

StrSize(s) == Len(s)

HeaderSize(h) == StrSize(h.name) + StrSize(h.description) + StrSize(h.created_by) + 2

AssetSize(a) == StrSize(a.name) + StrSize(a.url) + StrSize(a.description) + 3

RECURSIVE AssetsSize(_)
AssetsSize(as) == IF as = <<>> THEN 0 ELSE AssetSize(Head(as)) + AssetsSize(Tail(as))

\* st_size of a JSON file this program wrote, in units of one field value:
\* a uuid, a timestamp, a checksum and a number have a fixed width each
FileSize(content) ==
    IF content.json # "object" THEN 1
    ELSE LET o == content.obj
             h == IF "vcat_testvector_header" \in DOMAIN o
                  THEN HeaderSize(o.vcat_testvector_header) ELSE 0
         IN  h + (IF "media_asset" \in DOMAIN o
                  THEN StrSize(o.media_asset.name) + StrSize(o.media_asset.url) + 6
                  ELSE 0)
               + (IF "media_assets" \in DOMAIN o THEN AssetsSize(o.media_assets) ELSE 0)
               + (IF "playlists" \in DOMAIN o THEN AssetsSize(o.playlists) ELSE 0)
               + (IF "catalogs" \in DOMAIN o /\ o.catalogs.t = "list"
                  THEN Len(o.catalogs.items) ELSE 0)

\* vcat_testvector_datamodels.VcatTestVectorHeader(...).to_dict(): a fresh
\* uuid and the time of creation in every header
VcatTestVectorHeader(name, description, created_by, uuid, now) ==
    [name |-> name, description |-> description, created_by |-> created_by,
     uuid |-> uuid, timestamp |-> now]

\* VcatTestVectorPlaylistAsset / VcatTestVectorCatalogAsset (...).to_dict()
VcatTestVectorAsset(name, url, checksum, length_bytes, uuid, description) ==
    [name |-> name, description |-> description, url |-> url,
     uuid |-> uuid, checksum |-> checksum, length_bytes |-> length_bytes]

\* the keys a pass reads from data["vcat_testvector_header"]
HeaderReadable(content) ==
    /\ content.json = "object"
    /\ "vcat_testvector_header" \in DOMAIN content.obj
    /\ {"name", "uuid", "description"} \subseteq DOMAIN content.obj.vcat_testvector_header

-----------------------------------------------------------------------------
(* Configuration: settings.py and vcat_testvector_builder.BuilderConfig *)

CREATED_BY == <<"RoncaTech, LLC">>
CATALOG_FILENAME == <<"vcat_testvector_playlist", "_catalog.json">>
CATALOG_DESCRIPTION == <<"VCAT test vector playlist catalog">>
INDEX_FILENAME == <<"vcat_testvector_catalog_index.json">>

NoCodec == ""
NoName == <<>>

\* codec.upper()
Upper(codec) ==
    CASE codec = "av1" -> "AV1"
      [] codec = "vp9" -> "VP9"
      [] codec = "vvc" -> "VVC"
      [] OTHER -> codec

\* Path(catalog_filename).stem.replace("_", " ").title()
StemTitle(filename) ==
    CASE filename = CATALOG_FILENAME -> <<"Vcat Testvector Playlist Catalog">>
      [] filename = <<"my", "_catalog.json">> -> <<"My Catalog">>
      [] OTHER -> <<"Title of ">> \o filename

\* a plausible slip: the codec-derived name wins over an explicit file name
BuilderConfigCodecFirst(catalog_filename, codec, append_index) ==
    LET filename ==
            IF codec # NoCodec
            THEN <<"vcat_", codec, "_testvector_playlist", "_catalog.json">>
            ELSE IF catalog_filename # NoName THEN catalog_filename
                 ELSE CATALOG_FILENAME
    IN  [codec |-> codec,
         description |-> CATALOG_DESCRIPTION,
         created_by |-> CREATED_BY,
         catalog_filename |-> filename,
         append_index |-> append_index,
         catalog_name |->
            IF codec # NoCodec
            THEN <<"VCAT ", Upper(codec), " Testvector Playlist Catalog">>
            ELSE StemTitle(filename),
         index_name |-> <<"VCAT Test Vector Catalog Index">>,
         index_description |-> <<"Index of all VCAT test vector catalogs">>]

BuilderConfig(catalog_filename, codec, append_index) ==
    LET filename ==
            IF catalog_filename # NoName THEN catalog_filename
            ELSE IF codec # NoCodec
                 THEN <<"vcat_", codec, "_testvector_playlist", "_catalog.json">>
                 ELSE CATALOG_FILENAME
    IN  [codec |-> codec,
         description |-> CATALOG_DESCRIPTION,
         created_by |-> CREATED_BY,
         catalog_filename |-> filename,
         append_index |-> append_index,
         catalog_name |->
            IF codec # NoCodec
            THEN <<"VCAT ", Upper(codec), " Testvector Playlist Catalog">>
            ELSE StemTitle(filename),
         index_name |-> <<"VCAT Test Vector Catalog Index">>,
         index_description |-> <<"Index of all VCAT test vector catalogs">>]

media_folder(c) ==
    IF c.codec # NoCodec THEN InputFolder \o << <<"media">>, <<c.codec>> >>
    ELSE InputFolder \o << <<"media">> >>

-----------------------------------------------------------------------------
(* Pass 1: vcat_testvector_builder.generate_video_manifest                 *)
(* Each pass operator yields [ok, name, content]: whether a file is        *)
(* written, and which.                                                     *)

NoWrite == [ok |-> FALSE]
Write(name, content) == [name |-> name, ok |-> TRUE, content |-> content]

generate_video_manifest(t, video_path, c, uuid, now) ==
    LET e == Entry(t, video_path)
    IN  IF ~e.readable THEN NoWrite              \* getChecksum raises
        ELSE
        LET d == get_video_details(e.probe)
            rel_path == SubSeq(video_path, Len(InputFolder) + 1, Len(video_path))
            video_url == <<"../">> \o PathStr(rel_path)
            header_title ==
                generate_header_title(video_path, d.codec, d.resolution_x_y, d.frame_rate)
            header_description ==
                <<"VCAT Test asset: ">> \o Format(d.codec) \o <<", ">>
                    \o Format(d.resolution_x_y) \o <<", ">> \o Format(d.frame_rate)
                    \o <<"fps, ">> \o Format(d.duration_ms) \o <<"ms">>
            media_asset ==
                [name |-> Last(video_path), duration_ms |-> d.duration_ms,
                 resolution_x_y |-> d.resolution_x_y, frame_rate |-> d.frame_rate,
                 video_mime_type |-> d.codec, url |-> video_url,
                 checksum |-> getChecksum(e.bytes), length_bytes |-> e.size]
        IN  Write(Last(video_path) \o <<"_video_manifest.json">>,
                  Obj([vcat_testvector_header |->
                          VcatTestVectorHeader(header_title, header_description,
                                               c.created_by, uuid, now),
                       media_asset |-> media_asset]))

(* Pass 2: vcat_testvector_builder.generate_playlist_from_manifest *)

generate_playlist_from_manifest(files, manifest_name, c, uuid, now) ==
    IF manifest_name \notin DOMAIN files THEN NoWrite
    ELSE
    LET content == files[manifest_name]
    IN  IF ~(/\ HeaderReadable(content)
             /\ "media_asset" \in DOMAIN content.obj
             /\ "video_mime_type" \in DOMAIN content.obj.media_asset)
        THEN NoWrite
        ELSE
        LET header == content.obj.vcat_testvector_header
            playlist_asset ==
                VcatTestVectorAsset(header.name,
                                    <<"./manifests/">> \o manifest_name,
                                    getChecksum(content), FileSize(content),
                                    header.uuid, header.description)
            playlist_header ==
                VcatTestVectorHeader(header.name, <<"Playlist for ">> \o header.name,
                                     c.created_by, uuid, now)
        IN  Write(playlist_header.name \o <<"_playlist.json">>,
                  Obj([vcat_testvector_header |-> playlist_header,
                       media_assets |-> <<playlist_asset>>]))

(* Pass 3: vcat_testvector_builder.generate_catalog *)

\* manifest_dir.glob("*_playlist.json")
PlaylistFiles(files) == {n \in DOMAIN files : Last(n) = "_playlist.json"}

PlaylistAssetOf(files, n, prefix) ==
    LET hdr == files[n].obj.vcat_testvector_header
    IN  VcatTestVectorAsset(hdr.name, prefix \o n, getChecksum(files[n]),
                            FileSize(files[n]), hdr.uuid, hdr.description)

\* the loop of generate_catalog over the playlist files in glob order: a
\* playlist that cannot be read is reported and left out
CatalogAssets(files, order) ==
    LET good == SelectSeq(order, LAMBDA n : HeaderReadable(files[n]))
    IN  [k \in 1..Len(good) |-> PlaylistAssetOf(files, good[k], <<"./manifests/">>)]

\* a plausible slip: a catalog without playlists is written when none is found
generate_catalog_always(files, order, c, uuid, now) ==
    Write(c.catalog_filename,
          Obj([vcat_testvector_header |->
                  VcatTestVectorHeader(c.catalog_name, c.description,
                                       c.created_by, uuid, now),
               playlists |-> CatalogAssets(files, order)]))

generate_catalog(files, order, c, uuid, now) ==
    IF order = <<>> THEN NoWrite
    ELSE Write(c.catalog_filename,
               Obj([vcat_testvector_header |->
                       VcatTestVectorHeader(c.catalog_name, c.description,
                                            c.created_by, uuid, now),
                    playlists |-> CatalogAssets(files, order)]))

(* Pass 4: vcat_testvector_builder.generate_index *)

CatalogAssetOf(rfiles, n) ==
    LET hdr == rfiles[n].obj.vcat_testvector_header
    IN  VcatTestVectorAsset(hdr.name, <<"./">> \o n, getChecksum(rfiles[n]),
                            FileSize(rfiles[n]), hdr.uuid, hdr.description)

\* c.get("url") != rel_url
OtherUrl(c, rel_url) == IF "url" \in DOMAIN c THEN c.url # rel_url ELSE TRUE

\* a plausible slip: the existing entries are kept without the filter by url
ExistingCatalogsUnfiltered(rfiles, rel_url, c) ==
    IF ~(c.append_index /\ INDEX_FILENAME \in DOMAIN rfiles) THEN JList(<<>>)
    ELSE
    LET existing_data == rfiles[INDEX_FILENAME]
    IN  IF existing_data.json # "object" THEN JList(<<>>)
        ELSE IF "catalogs" \in DOMAIN existing_data.obj
             THEN existing_data.obj.catalogs ELSE JList(<<>>)

\* a plausible slip: the append flag is not honoured and the index always
\* starts from an empty list
ExistingCatalogsNever(rfiles, rel_url, c) == JList(<<>>)

\* existing_catalogs after the inner try block (lines 398-407): the value
\* bound at line 402 stays bound when the filter of line 404 raises
ExistingCatalogs(rfiles, rel_url, c) ==
    IF ~(c.append_index /\ INDEX_FILENAME \in DOMAIN rfiles) THEN JList(<<>>)
    ELSE
    LET existing_data == rfiles[INDEX_FILENAME]
    IN  IF existing_data.json # "object" THEN JList(<<>>)
        ELSE
        LET raw == IF "catalogs" \in DOMAIN existing_data.obj
                   THEN existing_data.obj.catalogs ELSE JList(<<>>)
        IN  IF raw.t = "list" /\ \A k \in DOMAIN raw.items : IsDict(raw.items[k])
            THEN JList(SelectSeq(raw.items, LAMBDA e : OtherUrl(e, rel_url)))
            ELSE raw

\* a plausible slip: the new entry is put in front of the existing ones
generate_index_prepend(rfiles, catalog, c, uuid, now) ==
    IF catalog = NoPath \/ catalog \notin DOMAIN rfiles THEN NoWrite
    ELSE IF rfiles[catalog].json = "invalid" THEN NoWrite
    ELSE IF ~(rfiles[catalog].json = "object" /\ "playlists" \in DOMAIN rfiles[catalog].obj)
         THEN NoWrite
    ELSE IF ~HeaderReadable(rfiles[catalog]) THEN NoWrite
    ELSE
    LET asset == CatalogAssetOf(rfiles, catalog)
        existing_catalogs == ExistingCatalogs(rfiles, asset.url, c)
    IN  IF existing_catalogs.t # "list" THEN NoWrite
        ELSE Write(INDEX_FILENAME,
                   Obj([vcat_testvector_header |->
                           VcatTestVectorHeader(c.index_name, c.index_description,
                                                c.created_by, uuid, now),
                        catalogs |-> JList(<<asset>> \o existing_catalogs.items)]))

generate_index(rfiles, catalog, c, uuid, now) ==
    IF catalog = NoPath \/ catalog \notin DOMAIN rfiles THEN NoWrite
    ELSE IF rfiles[catalog].json = "invalid" THEN NoWrite
    ELSE IF ~(rfiles[catalog].json = "object" /\ "playlists" \in DOMAIN rfiles[catalog].obj)
         THEN NoWrite
    ELSE IF ~HeaderReadable(rfiles[catalog]) THEN NoWrite
    ELSE
    LET asset == CatalogAssetOf(rfiles, catalog)
        existing_catalogs == ExistingCatalogs(rfiles, asset.url, c)
    IN  IF existing_catalogs.t # "list" THEN NoWrite   \* list concatenation raises
        ELSE Write(INDEX_FILENAME,
                   Obj([vcat_testvector_header |->
                           VcatTestVectorHeader(c.index_name, c.index_description,
                                                c.created_by, uuid, now),
                        catalogs |-> JList(existing_catalogs.items \o <<asset>>)]))

-----------------------------------------------------------------------------
(* The standalone scripts: vcat_testvector_catalog_builder.py and          *)
(* vcat_testvector_index_builder.py.  Neither loop catches an exception:   *)
(* [crashed |-> TRUE] is the script ending in a traceback, before          *)
(* write_catalog_to_disk / write_index_to_disk is reached.                 *)

Crashed == [ok |-> FALSE, crashed |-> TRUE]

build_catalog(files, order, uuid, now) ==
    IF \E k \in DOMAIN order : ~HeaderReadable(files[order[k]]) THEN Crashed
    ELSE Write(CATALOG_FILENAME,
               Obj([vcat_testvector_header |->
                       VcatTestVectorHeader(<<"VCAT Demo AV1 Vertical Test Assets">>,
                                            <<"AV1 vertical test asset playlist catalog">>,
                                            <<"RoncaTech, LLC">>, uuid, now),
                    playlists |->
                       [k \in DOMAIN order |->
                           PlaylistAssetOf(files, order[k], <<"manifests/">>)]]))

\* find_local_catalogs: the *_catalog.json files that parse and hold a
\* 'playlists' section
find_local_catalogs(rfiles) ==
    {n \in DOMAIN rfiles :
        /\ Last(n) = "_catalog.json"
        /\ rfiles[n].json = "object"
        /\ "playlists" \in DOMAIN rfiles[n].obj}

build_index(rfiles, order, uuid, now) ==
    IF \E k \in DOMAIN order : ~HeaderReadable(rfiles[order[k]]) THEN Crashed
    ELSE Write(INDEX_FILENAME,
               Obj([vcat_testvector_header |->
                       VcatTestVectorHeader(<<"VCAT Test Vector Catalog Index">>,
                                            <<"Index of all VCAT test vector catalogs">>,
                                            CREATED_BY, uuid, now),
                    catalogs |->
                       JList([k \in DOMAIN order |-> CatalogAssetOf(rfiles, order[k])])]))

-----------------------------------------------------------------------------
(* The input folders of the model *)

Dir(path) == [path |-> InputFolder \o path, readable |-> TRUE, kind |-> "dir"]

File(path, size, probe, readable) ==
    [path |-> InputFolder \o path, readable |-> readable, kind |-> "file",
     probe |-> probe, bytes |-> PathStr(path), size |-> size]

\* what ffmpeg -i prints for a video it can read; it exits with status 1
\* because no output file is given
Probed(codec) ==
    [stderr |-> [video |-> {codec},
                 durations |-> << << <<0, 0>>, <<0, 0>>, <<1, 0>>, <<0, 4>> >> >>,
                 resolutions |-> << <<"1920", "1080">> >>,
                 fps |-> <<"30">>],
     launch |-> "ok", returncode |-> 1]

\* ffmpeg could not be started, or its output could not be read
NotProbed == [stderr |-> [video |-> {}, durations |-> <<>>, resolutions |-> <<>>,
                          fps |-> <<>>],
              launch |-> "OSError", returncode |-> 0]

\* ffmpeg ran and found no video stream
NoVideo == [stderr |-> [video |-> {}, durations |-> <<>>, resolutions |-> <<>>,
                        fps |-> <<>>],
            launch |-> "ok", returncode |-> 1]

MEDIA == <<"media">>
AV1 == <<"av1">>
VP9 == <<"vp9">>

VideoCandidates ==
    {File(<<MEDIA, AV1, <<"clip", ".mp4">> >>, 1000, Probed("av1"), TRUE),
     File(<<MEDIA, AV1, <<"other", ".mp4">> >>, 2000, Probed("av1"), TRUE),
     File(<<MEDIA, VP9, <<"clip", ".mp4">> >>, 3000, Probed("vp9"), TRUE),
     File(<<MEDIA, AV1, <<"bad", ".mkv">> >>, 4000, NotProbed, TRUE),
     File(<<MEDIA, AV1, <<"locked", ".mp4">> >>, 5000, Probed("av1"), FALSE),
     File(<<MEDIA, MACOSX>>, 6000, NoVideo, TRUE)}

\* the directories above the files of a folder
Parents(fs) ==
    UNION {{[path |-> SubSeq(f.path, 1, k), readable |-> TRUE, kind |-> "dir"] :
                k \in 1..(Len(f.path) - 1)} : f \in fs}

Folders ==
    {{}, {Dir(<<>>)}}
        \cup {fs \cup Parents(fs) \cup {Dir(<<>>), Dir(<<MEDIA>>)} :
                fs \in {s \in SUBSET VideoCandidates : Cardinality(s) <= MaxVideos}}

-----------------------------------------------------------------------------
(* The build pipeline: vcat_testvector_builder.build, one action for each  *)
(* call it makes.                                                          *)
(*                                                                         *)
(* The order in which os.walk and glob list a directory is not specified,  *)
(* but it is a property of the file system: listing holds that order, and  *)
(* the same names are listed in the same order on every run.               *)

Codecs == {NoCodec, "av1", "vp9"}

Listed(order, S) == SelectSeq(order, LAMBDA x : x \in S)

StageAfter(queue, paths) ==
    IF queue # <<>> THEN "manifests"
    ELSE IF paths # <<>> THEN "playlists"
    ELSE "catalog"

Done(status) == [status |-> status, op |-> "build"]

\* a plausible slip: the manifests directory is created before the validation
BuildStartMkdirFirst(c) ==
    /\ stage = "idle"
    /\ runs < MaxRuns
    /\ runs' = runs + 1
    /\ config' = c
    /\ manifest_dir' = [manifest_dir EXCEPT !.exists = TRUE]
    /\ IF ~Exists(tree, InputFolder) \/ ~Exists(tree, media_folder(c))
       THEN /\ last' = Done("exit 1")
            /\ UNCHANGED <<stage, video_files, snapshot>>
       ELSE LET found == get_video_files_from_folder(tree, media_folder(c))
            IN  IF found.raised # "none"
                THEN /\ last' = Done("exit 1")
                     /\ UNCHANGED <<stage, video_files, snapshot>>
                ELSE /\ video_files' = Listed(listing.videos, found.files)
                     /\ stage' = StageAfter(video_files', <<>>)
                     /\ last' = Done("running")
                     /\ snapshot' = [config |-> config, files |-> manifest_dir.files,
                                     rfiles |-> root_files,
                                     status |-> last.status]
    /\ manifest_paths' = <<>>
    /\ todo' = <<>>
    /\ playlist_paths' = <<>>
    /\ catalog_path' = NoPath
    /\ UNCHANGED <<tree, listing, root_files, next_uuid>>

\* build() up to the end of discovery (lines 442-462): validation with
\* sys.exit(1), mkdir of the manifests directory, os.walk; an exception of
\* get_video_files_from_folder ends the process in a traceback
BuildStart(c) ==
    /\ stage = "idle"
    /\ runs < MaxRuns
    /\ runs' = runs + 1
    /\ config' = c
    /\ IF ~Exists(tree, InputFolder) \/ ~Exists(tree, media_folder(c))
       THEN /\ last' = Done("exit 1")
            /\ UNCHANGED <<manifest_dir, stage, video_files, snapshot>>
       ELSE LET found == get_video_files_from_folder(tree, media_folder(c))
            IN  /\ manifest_dir' = [manifest_dir EXCEPT !.exists = TRUE]
                /\ IF found.raised # "none"
                   THEN /\ last' = Done("exit 1")
                        /\ UNCHANGED <<stage, video_files, snapshot>>
                   ELSE /\ video_files' = Listed(listing.videos, found.files)
                        /\ stage' = StageAfter(video_files', <<>>)
                        /\ last' = Done("running")
                        /\ snapshot' = [config |-> config, files |-> manifest_dir.files,
                                        rfiles |-> root_files,
                                        status |-> last.status]
    /\ manifest_paths' = <<>>
    /\ todo' = <<>>
    /\ playlist_paths' = <<>>
    /\ catalog_path' = NoPath
    /\ UNCHANGED <<tree, listing, root_files, next_uuid>>

Build == \E codec \in Codecs, append_index \in BOOLEAN :
            BuildStart(BuilderConfig(NoName, codec, append_index))

\* a plausible slip: a pipeline that wraps each manifest as soon as it is written
Step1Early ==
    /\ stage = "manifests"
    /\ LET r == generate_video_manifest(tree, Head(video_files), config, next_uuid, runs)
       IN  /\ manifest_dir' =
                IF r.ok THEN [manifest_dir EXCEPT !.files = Put(@, r.name, r.content)]
                ELSE manifest_dir
           /\ manifest_paths' = IF r.ok THEN Append(manifest_paths, r.name)
                                ELSE manifest_paths
           /\ next_uuid' = IF r.ok THEN next_uuid + 1 ELSE next_uuid
    /\ video_files' = Tail(video_files)
    /\ stage' = StageAfter(<<>>, manifest_paths')
    /\ todo' = manifest_paths'
    /\ UNCHANGED <<tree, listing, root_files, config, playlist_paths, catalog_path,
                   last, runs, snapshot>>

\* step 1 (lines 464-468), one iteration of the loop over video_files
Step1 ==
    /\ stage = "manifests"
    /\ LET r == generate_video_manifest(tree, Head(video_files), config, next_uuid, runs)
       IN  /\ manifest_dir' =
                IF r.ok THEN [manifest_dir EXCEPT !.files = Put(@, r.name, r.content)]
                ELSE manifest_dir
           /\ manifest_paths' = IF r.ok THEN Append(manifest_paths, r.name)
                                ELSE manifest_paths
           /\ next_uuid' = IF r.ok THEN next_uuid + 1 ELSE next_uuid
    /\ video_files' = Tail(video_files)
    /\ stage' = StageAfter(video_files', manifest_paths')
    /\ todo' = IF video_files' = <<>> THEN manifest_paths' ELSE todo
    /\ UNCHANGED <<tree, listing, root_files, config, playlist_paths, catalog_path,
                   last, runs, snapshot>>

\* step 2 (lines 473-477), one iteration of the loop over manifest_paths
Step2 ==
    /\ stage = "playlists"
    /\ LET r == generate_playlist_from_manifest(manifest_dir.files, Head(todo), config,
                                                next_uuid, runs)
       IN  /\ manifest_dir' =
                IF r.ok THEN [manifest_dir EXCEPT !.files = Put(@, r.name, r.content)]
                ELSE manifest_dir
           /\ playlist_paths' = IF r.ok THEN Append(playlist_paths, r.name)
                                ELSE playlist_paths
           /\ next_uuid' = IF r.ok THEN next_uuid + 1 ELSE next_uuid
    /\ todo' = Tail(todo)
    /\ stage' = IF todo' = <<>> THEN "catalog" ELSE "playlists"
    /\ UNCHANGED <<tree, listing, root_files, config, video_files, manifest_paths,
                   catalog_path, last, runs, snapshot>>

\* a plausible slip: the catalog keeps the playlists of the catalog file it replaces
Step3Append ==
    /\ stage = "catalog"
    /\ LET order == Listed(listing.playlists, PlaylistFiles(manifest_dir.files))
           r == generate_catalog(manifest_dir.files, order, config, next_uuid, runs)
           old == IF r.ok /\ r.name \in DOMAIN root_files
                  THEN root_files[r.name].obj.playlists ELSE <<>>
       IN  /\ root_files' =
                IF r.ok
                THEN Put(root_files, r.name,
                         Obj([r.content.obj EXCEPT !.playlists = old \o @]))
                ELSE root_files
           /\ catalog_path' = IF r.ok THEN r.name ELSE NoPath
           /\ next_uuid' = IF r.ok THEN next_uuid + 1 ELSE next_uuid
    /\ stage' = "index"
    /\ UNCHANGED <<tree, listing, manifest_dir, config, video_files, manifest_paths,
                   todo, playlist_paths, last, runs, snapshot>>

\* step 3 (line 482)
Step3 ==
    /\ stage = "catalog"
    /\ LET order == Listed(listing.playlists, PlaylistFiles(manifest_dir.files))
           r == generate_catalog(manifest_dir.files, order, config, next_uuid, runs)
       IN  /\ root_files' = IF r.ok THEN Put(root_files, r.name, r.content)
                            ELSE root_files
           /\ catalog_path' = IF r.ok THEN r.name ELSE NoPath
           /\ next_uuid' = IF r.ok THEN next_uuid + 1 ELSE next_uuid
    /\ stage' = "index"
    /\ UNCHANGED <<tree, listing, manifest_dir, config, video_files, manifest_paths,
                   todo, playlist_paths, last, runs, snapshot>>

\* step 4 (line 487) and the end of build()
Step4 ==
    /\ stage = "index"
    /\ LET r == generate_index(root_files, catalog_path, config, next_uuid, runs)
       IN  /\ root_files' = IF r.ok THEN Put(root_files, r.name, r.content)
                            ELSE root_files
           /\ next_uuid' = IF r.ok THEN next_uuid + 1 ELSE next_uuid
    /\ stage' = "idle"
    /\ last' = Done("exit 0")
    /\ UNCHANGED <<tree, listing, manifest_dir, config, video_files, manifest_paths,
                   todo, playlist_paths, catalog_path, runs, snapshot>>

\* the playlist file a readable video of the folder ends up in
PlaylistNameOf(t, f) ==
    generate_playlist_from_manifest(
        LET m == generate_video_manifest(t, f.path, BuilderConfig(NoName, NoCodec, FALSE), 0, 0)
        IN  Put(NoFiles, m.name, m.content),
        Last(f.path) \o <<"_video_manifest.json">>,
        BuilderConfig(NoName, NoCodec, FALSE), 0, 0).name

VideosOf(t) == {f \in t : f.kind = "file"}

NoSnapshot ==
    [config |-> BuilderConfig(NoName, NoCodec, FALSE), files |-> NoFiles,
     rfiles |-> NoFiles, status |-> "none"]

Init ==
    /\ tree \in Folders
    /\ \E vs \in Perms({f.path : f \in VideosOf(tree)}),
          ps \in Perms({PlaylistNameOf(tree, f) : f \in {v \in VideosOf(tree) : v.readable}}) :
            listing = [playlists |-> ps, catalogs |-> <<>>, videos |-> vs]
    /\ manifest_dir = [files |-> NoFiles, exists |-> FALSE]
    /\ root_files = NoFiles
    /\ config = BuilderConfig(NoName, NoCodec, FALSE)
    /\ stage = "idle"
    /\ video_files = <<>>
    /\ manifest_paths = <<>>
    /\ todo = <<>>
    /\ playlist_paths = <<>>
    /\ catalog_path = NoPath
    /\ last = [status |-> "none", op |-> "none"]
    /\ next_uuid = 1
    /\ runs = 0
    /\ snapshot = NoSnapshot

Next == Build \/ Step1 \/ Step2 \/ Step3 \/ Step4

Spec == Init /\ [][Next]_vars

-----------------------------------------------------------------------------
(* Properties of the build pipeline *)

ManifestFiles(files) == {n \in DOMAIN files : Last(n) = "_video_manifest.json"}

CatalogFiles(rfiles) == {n \in DOMAIN rfiles : Last(n) = "_catalog.json"}

Rewritten(before, after, names) ==
    \E n \in names : n \notin DOMAIN before \/ after[n] # before[n]

WritesPlaylist ==
    Rewritten(manifest_dir.files, manifest_dir'.files, PlaylistFiles(manifest_dir'.files))

WritesCatalog == Rewritten(root_files, root_files', CatalogFiles(root_files'))

WritesIndex == Rewritten(root_files, root_files', DOMAIN root_files' \cap {INDEX_FILENAME})

\* the previous build and this one both ran to the end, with the same configuration
RanTwice ==
    /\ stage = "idle"
    /\ last.status = "exit 0"
    /\ snapshot.status = "exit 0"
    /\ snapshot.config = config

\* a document without the uuid and the timestamp of its header
NoStamp(content) ==
    Obj([content.obj EXCEPT !.vcat_testvector_header.uuid = 0,
                            !.vcat_testvector_header.timestamp = 0])

\* an asset record without the fields taken from the bytes of the document it refers to
NoDigest(assets) ==
    [k \in DOMAIN assets |-> [name |-> assets[k].name, description |-> assets[k].description,
                              url |-> assets[k].url]]

\* a document without its stamp and without the digests of its asset records
NoStampNoDigest(content) ==
    LET o == NoStamp(content).obj
    IN  IF "media_assets" \in DOMAIN o
        THEN Obj([o EXCEPT !.media_assets = NoDigest(@)])
        ELSE IF "playlists" \in DOMAIN o
        THEN Obj([o EXCEPT !.playlists = NoDigest(@)])
        ELSE Obj(o)

SameNames ==
    /\ DOMAIN manifest_dir.files = DOMAIN snapshot.files
    /\ CatalogFiles(root_files) = CatalogFiles(snapshot.rfiles)

C4_OneFilePerItem ==
    (runs = 1 /\ stage = "idle" /\ last.status = "exit 0") =>
        /\ Cardinality(ManifestFiles(manifest_dir.files)) = Len(manifest_paths)
        /\ Cardinality(PlaylistFiles(manifest_dir.files)) = Len(playlist_paths)

\* the video a manifest on disk was generated from, by the url it records
SourceOf(content) ==
    CHOOSE f \in VideosOf(tree) :
        content.obj.media_asset.url
            = <<"../">> \o PathStr(SubSeq(f.path, Len(InputFolder) + 1, Len(f.path)))

DetailsIn(content) ==
    [codec |-> content.obj.media_asset.video_mime_type,
     duration_ms |-> content.obj.media_asset.duration_ms,
     resolution_x_y |-> content.obj.media_asset.resolution_x_y,
     frame_rate |-> content.obj.media_asset.frame_rate]

(* C5 as stated: whenever the tool could not be started, its output could  *)
(* not be read or it exited with a non-zero status, the four fields of     *)
(* the manifest are all "unknown".                                         *)
C5_UnknownOnAnyFailure ==
    \A n \in ManifestFiles(manifest_dir.files) :
        LET probe == SourceOf(manifest_dir.files[n]).probe
        IN  (probe.launch # "ok" \/ probe.returncode # 0)
                => DetailsIn(manifest_dir.files[n]) = Unknown4

\* step 1 on a video whose bytes can be read writes its manifest and goes on
\* with the next video, or with step 2 after the last one
ManifestWrittenAndLoopGoesOn ==
    (stage = "manifests" /\ Entry(tree, Head(video_files)).readable) =>
        LET n == Last(Head(video_files)) \o <<"_video_manifest.json">>
        IN  /\ n \in DOMAIN manifest_dir'.files
            /\ SourceOf(manifest_dir'.files[n]).path = Head(video_files)
            /\ manifest_dir'.files[n].obj.vcat_testvector_header.uuid = next_uuid
            /\ video_files' = Tail(video_files)
            /\ stage' = IF video_files' = <<>> THEN "playlists" ELSE "manifests"

(* C5, amended: when subprocess.run raises (the tool cannot be started or  *)
(* its output cannot be read) the four fields are all "unknown"; a         *)
(* non-zero exit status is no failure, the output is parsed as for status  *)
(* 0; in both cases the manifest of that file is written and the loop      *)
(* goes on with the following files.                                       *)
C5_UnknownWhenRunRaises ==
    /\ [](\A n \in ManifestFiles(manifest_dir.files) :
            LET probe == SourceOf(manifest_dir.files[n]).probe
            IN  DetailsIn(manifest_dir.files[n])
                    = IF probe.launch # "ok" THEN Unknown4 ELSE ParseStderr(probe.stderr))
    /\ [][ManifestWrittenAndLoopGoesOn]_vars

C5_Witness ==
    /\ Len(manifest_paths) = 2
    /\ manifest_paths[1] # manifest_paths[2]
    /\ manifest_paths[1] \in DOMAIN manifest_dir.files
    /\ SourceOf(manifest_dir.files[manifest_paths[1]]).probe.launch # "ok"
    /\ DetailsIn(manifest_dir.files[manifest_paths[1]]) = Unknown4
    /\ SourceOf(manifest_dir.files[manifest_paths[2]]).probe.returncode # 0
    /\ DetailsIn(manifest_dir.files[manifest_paths[2]]).codec = PyStr(<<"video/", "av1">>)

(* C8: when the input folder or the media folder of the configuration is   *)
(* missing, build ends with exit status 1 before any pass: the manifests   *)
(* directory is not created and no output file is written or changed.      *)
C8_ExitBeforeAnyPass ==
    [][(/\ stage = "idle"
        /\ runs' = runs + 1
        /\ (~Exists(tree, InputFolder) \/ ~Exists(tree, media_folder(config'))))
          => /\ last'.status = "exit 1"
             /\ stage' = "idle"
             /\ manifest_dir' = manifest_dir
             /\ root_files' = root_files]_vars

C8_Witness ==
    /\ last.status = "exit 1"
    /\ stage = "idle"
    /\ config.codec # NoCodec
    /\ Exists(tree, InputFolder \o <<MEDIA>>)
    /\ ~Exists(tree, media_folder(config))
    /\ ~manifest_dir.exists

(* C9: the stages of a build run in order, each on what the stage before   *)
(* it left on disk: a playlist is written only when no video is left for   *)
(* step 1 and every manifest of the build is on disk, the catalog only     *)
(* when no manifest is left for step 2 and every playlist of the build is  *)
(* on disk, the index only when the catalog of the build is on disk.       *)
C9_StagesInOrder ==
    [][/\ WritesPlaylist =>
            /\ video_files = <<>>
            /\ \A k \in DOMAIN manifest_paths :
                  manifest_paths[k] \in DOMAIN manifest_dir.files
       /\ WritesCatalog =>
            /\ video_files = <<>> /\ todo = <<>>
            /\ \A k \in DOMAIN playlist_paths :
                  playlist_paths[k] \in DOMAIN manifest_dir.files
       /\ WritesIndex =>
            /\ video_files = <<>> /\ todo = <<>>
            /\ catalog_path \in CatalogFiles(root_files)
            /\ root_files[catalog_path].obj.vcat_testvector_header.timestamp = runs]_vars

C9_Witness ==
    /\ stage = "idle"
    /\ last.status = "exit 0"
    /\ Len(manifest_paths) = 2
    /\ Len(playlist_paths) = 2
    /\ catalog_path \in DOMAIN root_files
    /\ INDEX_FILENAME \in DOMAIN root_files

-----------------------------------------------------------------------------
(* The passes on their own: generate_catalog and generate_index of the     *)
(* builder and the two standalone scripts, each called on an output        *)
(* folder that earlier runs (or anything else) left behind.  snapshot      *)
(* holds the files as they were before the last call, last what it did.    *)

P1 == <<"av1-", "1920", "X", "1080", "p", "30", "fps", "_playlist.json">>
P2 == <<"bad", "_playlist.json">>
CatA == CATALOG_FILENAME
CatB == BuilderConfig(NoName, "av1", FALSE).catalog_filename

\* a playlist as step 2 writes it
APlaylist(n, uuid) ==
    Obj([vcat_testvector_header |->
            VcatTestVectorHeader(Front(n), <<"Playlist for ">> \o Front(n), CREATED_BY, uuid, 0),
         media_assets |-> <<>>])

\* a catalog as step 3 writes it
ACatalog(codec, uuid) ==
    Obj([vcat_testvector_header |->
            VcatTestVectorHeader(BuilderConfig(NoName, codec, FALSE).catalog_name,
                                 CATALOG_DESCRIPTION, CREATED_BY, uuid, 0),
         playlists |-> <<>>])

\* valid JSON objects that lack what a pass reads
NoHeader == Obj([playlists |-> <<>>])
NoPlaylists == Obj([vcat_testvector_header |-> VcatTestVectorHeader(<<"x">>, <<"x">>, CREATED_BY, 0, 0)])

FilesOf(names, choice) ==
    LET present == {n \in names : choice[n] # Array}
    IN  [n \in present |-> choice[n]]

\* Array stands for "no such file" in a choice
PlaylistDirs ==
    {FilesOf({P1, P2}, ch) :
        ch \in [{P1, P2} -> {Array, Invalid, NoHeader}]
                 \cup {[n \in {P1, P2} |-> IF n \in S THEN APlaylist(n, 1) ELSE other] :
                          S \in SUBSET {P1, P2}, other \in {Array, Invalid, NoHeader}}}

CatalogSets ==
    {FilesOf({CatA, CatB}, [n \in {CatA, CatB} |-> IF n = CatA THEN a ELSE b]) :
        a \in {Array, ACatalog(NoCodec, 1), ACatalog(NoCodec, 2), NoPlaylists},
        b \in {Array, ACatalog("av1", 1), ACatalog("av1", 2), NoHeader}}

\* the entries an existing index may hold: what generate_index wrote for an
\* earlier version of a catalog, an object without url, a string
OldEntries ==
    {CatalogAssetOf(Put(NoFiles, CatA, ACatalog(NoCodec, 1)), CatA),
     CatalogAssetOf(Put(NoFiles, CatB, ACatalog("av1", 1)), CatB),
     [name |-> <<"no url">>],
     JString(<<"junk">>)}

RECURSIVE SeqsUpTo(_, _)
SeqsUpTo(S, n) ==
    IF n = 0 THEN {<<>>}
    ELSE LET shorter == SeqsUpTo(S, n - 1)
         IN  shorter \cup {Append(q, x) : q \in shorter, x \in S}

IndexHeader == VcatTestVectorHeader(<<"VCAT Test Vector Catalog Index">>,
                                    <<"Index of all VCAT test vector catalogs">>,
                                    CREATED_BY, 0, 0)

\* Array stands for "no index file"
IndexChoices ==
    {Array, Invalid, Obj([catalogs |-> JNull]), Obj([vcat_testvector_header |-> IndexHeader])}
        \cup {Obj([vcat_testvector_header |-> IndexHeader, catalogs |-> JList(q)]) :
                 q \in SeqsUpTo(OldEntries, MaxIndexLen)}

Called(op, status, c, catalog) ==
    [catalog |-> catalog, status |-> status, op |-> op, append |-> c.append_index]

Before(c) == [config |-> c, files |-> manifest_dir.files,
              rfiles |-> root_files, status |-> last.status]

Outcome(r) == IF r.ok THEN "written" ELSE IF "crashed" \in DOMAIN r THEN "crashed" ELSE "None"

\* generate_catalog(config)
PassCatalog(c) ==
    /\ runs < MaxRuns
    /\ LET order == Listed(listing.playlists, PlaylistFiles(manifest_dir.files))
           r == generate_catalog(manifest_dir.files, order, c, next_uuid, runs + 1)
       IN  /\ root_files' = IF r.ok THEN Put(root_files, r.name, r.content) ELSE root_files
           /\ next_uuid' = IF r.ok THEN next_uuid + 1 ELSE next_uuid
           /\ last' = Called("generate_catalog", Outcome(r), c, c.catalog_filename)
    /\ UNCHANGED manifest_dir

\* generate_index(catalog_path, config)
PassIndex(catalog, c) ==
    /\ runs < MaxRuns
    /\ LET r == generate_index(root_files, catalog, c, next_uuid, runs + 1)
       IN  /\ root_files' = IF r.ok THEN Put(root_files, r.name, r.content) ELSE root_files
           /\ next_uuid' = IF r.ok THEN next_uuid + 1 ELSE next_uuid
           /\ last' = Called("generate_index", Outcome(r), c, catalog)
    /\ UNCHANGED manifest_dir

\* vcat_testvector_catalog_builder.main
ScriptCatalog(c) ==
    /\ runs < MaxRuns
    /\ LET order == Listed(listing.playlists, PlaylistFiles(manifest_dir.files))
           r == build_catalog(manifest_dir.files, order, next_uuid, runs + 1)
       IN  /\ root_files' = IF r.ok THEN Put(root_files, r.name, r.content) ELSE root_files
           /\ next_uuid' = IF r.ok THEN next_uuid + 1 ELSE next_uuid
           /\ last' = Called("build_catalog", Outcome(r), c, CATALOG_FILENAME)
    /\ UNCHANGED manifest_dir

\* vcat_testvector_index_builder.main
ScriptIndex(c) ==
    /\ runs < MaxRuns
    /\ LET order == Listed(listing.catalogs, find_local_catalogs(root_files))
           r == build_index(root_files, order, next_uuid, runs + 1)
       IN  /\ root_files' = IF r.ok THEN Put(root_files, r.name, r.content) ELSE root_files
           /\ next_uuid' = IF r.ok THEN next_uuid + 1 ELSE next_uuid
           /\ last' = Called("build_index", Outcome(r), c, NoPath)
    /\ UNCHANGED manifest_dir

Call(c) ==
    /\ runs' = runs + 1
    /\ config' = c
    /\ snapshot' = Before(c)
    /\ UNCHANGED <<tree, listing, stage, video_files, manifest_paths, todo,
                   playlist_paths, catalog_path>>

NextPasses ==
    \/ \E codec \in {NoCodec, "av1"} :
          LET c == BuilderConfig(NoName, codec, FALSE) IN PassCatalog(c) /\ Call(c)
    \/ \E catalog \in {CatA, CatB}, append_index \in BOOLEAN :
          LET c == BuilderConfig(NoName, NoCodec, append_index)
          IN  PassIndex(catalog, c) /\ Call(c)
    \/ LET c == BuilderConfig(NoName, NoCodec, FALSE) IN ScriptCatalog(c) /\ Call(c)
    \/ LET c == BuilderConfig(NoName, NoCodec, FALSE) IN ScriptIndex(c) /\ Call(c)

InitPasses ==
    /\ tree = {Dir(<<>>), Dir(<<MEDIA>>)}
    /\ \/ /\ manifest_dir \in {[files |-> fs, exists |-> TRUE] : fs \in PlaylistDirs}
          /\ root_files = NoFiles
          /\ listing \in {[playlists |-> ps, catalogs |-> <<CatA, CatB>>, videos |-> <<>>] :
                             ps \in Perms({P1, P2})}
       \/ /\ manifest_dir = [files |-> Put(NoFiles, P1, APlaylist(P1, 1)), exists |-> TRUE]
          /\ \E cs \in CatalogSets, ix \in IndexChoices :
                root_files = IF ix = Array THEN cs ELSE Put(cs, INDEX_FILENAME, ix)
          /\ listing \in {[playlists |-> <<P1, P2>>, catalogs |-> cs, videos |-> <<>>] :
                             cs \in Perms({CatA, CatB})}
    /\ config = BuilderConfig(NoName, NoCodec, FALSE)
    /\ stage = "idle"
    /\ video_files = <<>>
    /\ manifest_paths = <<>>
    /\ todo = <<>>
    /\ playlist_paths = <<>>
    /\ catalog_path = NoPath
    /\ last = [status |-> "none", op |-> "none"]
    /\ next_uuid = 3
    /\ runs = 0
    /\ snapshot = NoSnapshot

SpecPasses == InitPasses /\ [][NextPasses]_vars

-----------------------------------------------------------------------------
(* Properties of the passes *)

\* the index file is a JSON object whose catalogs value is a list
HasList(rfiles) ==
    /\ INDEX_FILENAME \in DOMAIN rfiles
    /\ rfiles[INDEX_FILENAME].json = "object"
    /\ "catalogs" \in DOMAIN rfiles[INDEX_FILENAME].obj
    /\ rfiles[INDEX_FILENAME].obj.catalogs.t = "list"

Items(rfiles) == rfiles[INDEX_FILENAME].obj.catalogs.items

\* the index file holds catalog entries and nothing else
HasEntries(rfiles) ==
    /\ HasList(rfiles)
    /\ \A k \in DOMAIN Items(rfiles) :
          IsDict(Items(rfiles)[k]) /\ "url" \in DOMAIN Items(rfiles)[k]

Urls(rfiles) == {Items(rfiles)[k].url : k \in DOMAIN Items(rfiles)}

UrlOf(n) == <<"./">> \o n

\* the last call was generate_index, and it wrote the index
Indexed == last.op = "generate_index" /\ last.status = "written"

\* the entry generate_index made for the catalog it was called with
NewEntry == CatalogAssetOf(snapshot.rfiles, last.catalog)

(* C1: in append mode, on an index that holds entries for the urls of two  *)
(* catalogs A and B, generate_index called with catalog A, whose checksum  *)
(* is not the one in the index, writes an index of exactly two entries:    *)
(* the old entry of B and the new entry of A.                              *)
C1_MergeReplacesByUrl ==
    \A a, b \in {CatA, CatB} :
        (/\ a # b
         /\ last.op = "generate_index" /\ last.append /\ last.catalog = a
         /\ a \in DOMAIN snapshot.rfiles
         /\ snapshot.rfiles[a].json = "object"
         /\ "playlists" \in DOMAIN snapshot.rfiles[a].obj
         /\ HeaderReadable(snapshot.rfiles[a])
         /\ HasEntries(snapshot.rfiles)
         /\ Len(Items(snapshot.rfiles)) = 2
         /\ Urls(snapshot.rfiles) = {UrlOf(a), UrlOf(b)}
         /\ \E k \in 1..2 : /\ Items(snapshot.rfiles)[k].url = UrlOf(a)
                            /\ Items(snapshot.rfiles)[k].checksum # NewEntry.checksum)
        => /\ last.status = "written"
           /\ HasEntries(root_files)
           /\ Len(Items(root_files)) = 2
           /\ \E k \in 1..2 : /\ Items(snapshot.rfiles)[k].url = UrlOf(b)
                              /\ Items(root_files)[1] = Items(snapshot.rfiles)[k]
           /\ Items(root_files)[2] = NewEntry
           /\ Items(root_files)[2].url = UrlOf(a)

C1_Witness ==
    /\ Indexed /\ last.append /\ last.catalog = CatA
    /\ HasEntries(snapshot.rfiles)
    /\ Len(Items(snapshot.rfiles)) = 2
    /\ Items(snapshot.rfiles)[1].url = UrlOf(CatA)
    /\ Items(snapshot.rfiles)[2].url = UrlOf(CatB)
    /\ Items(snapshot.rfiles)[1].checksum # NewEntry.checksum
    /\ Len(Items(root_files)) = 2

\* the playlists / catalogs of the folder that a pass can read
GoodPlaylists(files) == {n \in PlaylistFiles(files) : HeaderReadable(files[n])}

GoodCatalogs(rfiles) == {n \in find_local_catalogs(rfiles) : HeaderReadable(rfiles[n])}

AssetUrls(assets) == {assets[k].url : k \in DOMAIN assets}

(* C3 as stated: in every pass, the standalone scripts included, an item   *)
(* that cannot be read is skipped and the parent document is written with  *)
(* the records of the items that can.                                      *)
C3_ItemFailuresSkipped ==
    /\ (last.op = "generate_catalog" /\ PlaylistFiles(snapshot.files) # {}) =>
          /\ last.status = "written"
          /\ AssetUrls(root_files[last.catalog].obj.playlists)
                = {<<"./manifests/">> \o n : n \in GoodPlaylists(snapshot.files)}
    /\ last.op = "build_catalog" =>
          /\ last.status = "written"
          /\ AssetUrls(root_files[CATALOG_FILENAME].obj.playlists)
                = {<<"manifests/">> \o n : n \in GoodPlaylists(snapshot.files)}
    /\ last.op = "build_index" =>
          /\ last.status = "written"
          /\ Urls(root_files) = {UrlOf(n) : n \in GoodCatalogs(snapshot.rfiles)}

(* C6 as stated: a catalog file on disk that the index listed before       *)
(* generate_index ran is still listed after it, in append mode or not.     *)
C6_IndexedCatalogsStay ==
    (Indexed /\ HasEntries(snapshot.rfiles)) =>
        \A n \in CatalogFiles(root_files) :
            UrlOf(n) \in Urls(snapshot.rfiles) => UrlOf(n) \in Urls(root_files)

(* C6, amended: generate_index lists the catalog it is called with; a      *)
(* catalog the index listed before is still listed in append mode, and     *)
(* without append mode the written index lists the new catalog alone.      *)
C6_IndexedCatalogsStayOnAppend ==
    Indexed =>
        /\ HasList(root_files)
        /\ Items(root_files)[Len(Items(root_files))] = NewEntry
        /\ (last.append /\ HasEntries(snapshot.rfiles)) =>
              Urls(snapshot.rfiles) \subseteq Urls(root_files)
        /\ ~last.append => Items(root_files) = <<NewEntry>>

C6_Witness ==
    /\ Indexed /\ ~last.append /\ last.catalog = CatA
    /\ HasEntries(snapshot.rfiles)
    /\ UrlOf(CatB) \in Urls(snapshot.rfiles)
    /\ CatB \in GoodCatalogs(root_files)
    /\ Urls(root_files) = {UrlOf(CatA)}

\* the index file cannot be used for a merge
Unusable(rfiles) ==
    /\ INDEX_FILENAME \in DOMAIN rfiles
    /\ \/ rfiles[INDEX_FILENAME].json # "object"
       \/ /\ HasList(rfiles)
          /\ \E k \in DOMAIN Items(rfiles) : ~IsDict(Items(rfiles)[k])

(* C7 as stated: in append mode, on an index file that is no JSON, no JSON *)
(* object, or whose catalogs list holds an entry that is no object,        *)
(* generate_index writes an index with exactly one entry, the new one.     *)
C7_UnusableIndexStartsFresh ==
    (/\ last.op = "generate_index" /\ last.append
     /\ last.catalog \in GoodCatalogs(snapshot.rfiles)
     /\ Unusable(snapshot.rfiles))
        => /\ last.status = "written"
           /\ HasList(root_files)
           /\ Items(root_files) = <<NewEntry>>

-----------------------------------------------------------------------------
(* Video discovery on its own: get_video_files_from_folder called on input *)
(* folders that hold macOS artifacts at every depth.                       *)

Plain(path, kind) == [path |-> InputFolder \o <<MEDIA>> \o path, readable |-> TRUE, kind |-> kind]

CLIP == <<"clip", ".mp4">>

ArtifactCandidates ==
    {Plain(<<AV1>>, "dir"), Plain(<<MACOSX>>, "dir"), Plain(<<DS_Store>>, "dir"),
     Plain(<<AV1, MACOSX>>, "dir"), Plain(<<AV1, DS_Store>>, "dir"),
     Plain(<<CLIP>>, "file"), Plain(<<DS_Store>>, "file"), Plain(<<MACOSX>>, "file"),
     Plain(<<AV1, CLIP>>, "file"), Plain(<<AV1, DS_Store>>, "file"),
     Plain(<<AV1, MACOSX>>, "file"), Plain(<<MACOSX, CLIP>>, "file"),
     Plain(<<DS_Store, CLIP>>, "file"), Plain(<<AV1, MACOSX, CLIP>>, "file")}

\* a set of entries is a folder when no path is both file and directory and
\* every entry lies in a directory of the set
WellFormed(es) ==
    /\ \A e, f \in es : e.path = f.path => e = f
    /\ \A e \in es :
          Len(e.path) > Len(InputFolder) + 2 =>
              \E d \in es : d.kind = "dir" /\ d.path = Front(e.path)

ArtifactFolders ==
    {{}, {Dir(<<>>)}}
        \cup {es \cup {Dir(<<>>), [path |-> InputFolder \o <<MEDIA>>, readable |-> r,
                                  kind |-> "dir"]} :
                 es \in {x \in SUBSET ArtifactCandidates : WellFormed(x)}, r \in BOOLEAN}

Discover(c) ==
    /\ runs < MaxRuns
    /\ runs' = runs + 1
    /\ config' = c
    /\ LET found == get_video_files_from_folder(tree, media_folder(c))
       IN  last' = [files |-> found.files, status |-> found.raised, op |-> "discover"]
    /\ UNCHANGED <<tree, listing, manifest_dir, root_files, stage, video_files,
                   manifest_paths, todo, playlist_paths, catalog_path, next_uuid,
                   snapshot>>

\* vcat_testvector_video_builder.get_video_files_from_folder(folderpath):
\* a missing or unreadable <folderpath>/media is reported and [] is returned;
\* the paths are media/<directory relative to media>/<name>, the directory
\* being "." for media itself
video_builder_get_video_files_from_folder(t, folderpath) ==
    LET media == folderpath \o <<MEDIA>>
    IN  IF ~(Exists(t, media) /\ Entry(t, media).kind = "dir")
        THEN [files |-> {}, raised |-> "none"]
        ELSE IF ~Access(t, media) THEN [files |-> {}, raised |-> "none"]
        ELSE [files |-> {LET rel == SubSeq(p, Len(media) + 1, Len(p) - 1)
                         IN  <<MEDIA>> \o (IF rel = <<>> THEN << <<".">> >> ELSE rel)
                                 \o <<Last(p)>> : p \in Walk(t, media)},
              raised |-> "none"]

\* vcat_testvector_video_builder.main up to the end of discovery
VideoBuilderDiscover ==
    /\ runs < MaxRuns
    /\ runs' = runs + 1
    /\ LET found == video_builder_get_video_files_from_folder(tree, InputFolder)
       IN  last' = [files |-> found.files, status |-> found.raised,
                    op |-> "video_builder.discover"]
    /\ UNCHANGED <<tree, listing, manifest_dir, root_files, config, stage, video_files,
                   manifest_paths, todo, playlist_paths, catalog_path, next_uuid,
                   snapshot>>

NextWalk ==
    \/ \E codec \in {NoCodec, "av1"} : Discover(BuilderConfig(NoName, codec, FALSE))
    \/ VideoBuilderDiscover

InitWalk ==
    /\ tree \in ArtifactFolders
    /\ listing = [playlists |-> <<>>, catalogs |-> <<>>, videos |-> <<>>]
    /\ manifest_dir = [files |-> NoFiles, exists |-> FALSE]
    /\ root_files = NoFiles
    /\ config = BuilderConfig(NoName, NoCodec, FALSE)
    /\ stage = "idle"
    /\ video_files = <<>>
    /\ manifest_paths = <<>>
    /\ todo = <<>>
    /\ playlist_paths = <<>>
    /\ catalog_path = NoPath
    /\ last = [status |-> "none", op |-> "none"]
    /\ next_uuid = 1
    /\ runs = 0
    /\ snapshot = NoSnapshot

SpecWalk == InitWalk /\ [][NextWalk]_vars

(* C10 as stated: no path that discovery returns has a component below the *)
(* media folder, directory or file name, equal to .DS_Store or __MACOSX.   *)
C10_NoArtifactComponent ==
    last.op = "discover" =>
        \A p \in last.files :
            \A k \in (Len(media_folder(config)) + 1)..Len(p) :
                p[k] \notin {DS_Store, MACOSX}

-----------------------------------------------------------------------------
(* Title derivation on its own: generate_header_title of the builder and   *)
(* of vcat_testvector_video_builder, called on file names and directory    *)
(* names with and without film-grain markers.                              *)

\* vcat_testvector_video_builder.generate_header_title: the fallback is the
\* last component of the path, suffix included
video_builder_generate_header_title(video_file, video_mime_type, resolution_x_y, frame_rate) ==
    LET mime == Lower(Format(video_mime_type))
        tail == Format(resolution_x_y) \o <<"p">> \o Format(frame_rate) \o <<"fps">>
        named ==
            IF Contains(mime, "av1") THEN <<"av1-">> \o tail
            ELSE IF Contains(mime, "vvc") THEN <<"vvc-">> \o tail
            ELSE IF Contains(mime, "vp09") THEN <<"vp9-">> \o tail
            ELSE <<>>
        base_name == IF named = <<>> THEN Last(video_file) ELSE named
        whole == PathStr(video_file)
    IN  IF Contains(whole, "fd0") THEN base_name \o <<"-", "fd0">>
        ELSE IF Contains(whole, "fd1") THEN base_name \o <<"-", "fd1">>
        ELSE IF Contains(whole, "fd2") THEN base_name \o <<"-", "fd2">>
        ELSE base_name

TitleDirs == {<<"av1">>, <<"fd1">>, <<"set_", "fd2">>}

TitleNames ==
    {<<"clip", ".mp4">>, <<"clip_", "fd1", ".mp4">>, <<"clip_", "fd2", ".mkv">>,
     <<"b_", "fd2", "_", "fd0", ".mp4">>}

TitleMimes ==
    {PyStr(<<"video/", "av1">>), PyStr(<<"video/mp4; codecs=\"", "vp09", "\"">>),
     PyStr(<<"video/mp4; codecs=\"", "vvc", "\"">>), PyStr(<<"Unknown">>),
     PyStr(<<"unknown">>)}

TitleResolutions == {PyStr(<<"1920", "X", "1080">>), PyNone, PyStr(<<"unknown">>)}

TitleRates == {PyStr(<<"30">>), PyStr(<<"unknown">>)}

Titled(op, video_file, mime, resolution, rate, title) ==
    [video_file |-> video_file, mime |-> mime, status |-> "returned", op |-> op,
     resolution |-> resolution, rate |-> rate, title |-> title]

TitleFrame ==
    /\ runs < MaxRuns
    /\ runs' = runs + 1
    /\ UNCHANGED <<tree, listing, manifest_dir, root_files, config, stage, video_files,
                   manifest_paths, todo, playlist_paths, catalog_path, next_uuid,
                   snapshot>>

\* generate_header_title(str(video_path), ...) as generate_video_manifest calls it
Title(dir, name, mime, resolution, rate) ==
    /\ TitleFrame
    /\ LET video_file == InputFolder \o <<MEDIA, dir, name>>
       IN  last' = Titled("generate_header_title", video_file, mime, resolution, rate,
                          generate_header_title(video_file, mime, resolution, rate))

\* generate_header_title("media/<dir>/<name>", ...) as the video builder calls it
VideoBuilderTitle(dir, name, mime, resolution, rate) ==
    /\ TitleFrame
    /\ LET video_file == <<MEDIA, dir, name>>
       IN  last' = Titled("video_builder.generate_header_title", video_file, mime,
                          resolution, rate,
                          video_builder_generate_header_title(video_file, mime,
                                                              resolution, rate))

NextTitle ==
    \E dir \in TitleDirs, name \in TitleNames, mime \in TitleMimes,
       resolution \in TitleResolutions, rate \in TitleRates :
          \/ Title(dir, name, mime, resolution, rate)
          \/ VideoBuilderTitle(dir, name, mime, resolution, rate)

InitTitle ==
    /\ tree = {Dir(<<>>), Dir(<<MEDIA>>)}
    /\ listing = [playlists |-> <<>>, catalogs |-> <<>>, videos |-> <<>>]
    /\ manifest_dir = [files |-> NoFiles, exists |-> FALSE]
    /\ root_files = NoFiles
    /\ config = BuilderConfig(NoName, NoCodec, FALSE)
    /\ stage = "idle"
    /\ video_files = <<>>
    /\ manifest_paths = <<>>
    /\ todo = <<>>
    /\ playlist_paths = <<>>
    /\ catalog_path = NoPath
    /\ last = [status |-> "none", op |-> "none"]
    /\ next_uuid = 1
    /\ runs = 0
    /\ snapshot = NoSnapshot

SpecTitle == InitTitle /\ [][NextTitle]_vars

\* the title the contract asks for: the codec pattern or the base name
\* without extension, then the first marker that the file's own name holds
TitleByContract(video_file, mime, resolution, rate) ==
    LET family ==
            IF Contains(Lower(mime.s), "av1") THEN <<"av1-">>
            ELSE IF Contains(Lower(mime.s), "vvc") THEN <<"vvc-">>
            ELSE IF Contains(Lower(mime.s), "vp09") THEN <<"vp9-">>
            ELSE <<>>
        base == IF family = <<>> THEN Stem(Last(video_file))
                ELSE family \o Format(resolution) \o <<"p">> \o Format(rate) \o <<"fps">>
        own == Last(video_file)
    IN  IF Contains(own, "fd0") THEN base \o <<"-", "fd0">>
        ELSE IF Contains(own, "fd1") THEN base \o <<"-", "fd1">>
        ELSE IF Contains(own, "fd2") THEN base \o <<"-", "fd2">>
        ELSE base

(* C11 as stated: the title is the codec pattern for av1, vvc and vp9 and  *)
(* the base name without extension otherwise, followed by "-<marker>" if   *)
(* and only if the file's own name, not a directory above it, contains     *)
(* fd0, fd1 or fd2, for the first of them in that order.                   *)
C11_TitleFromOwnName ==
    last.op \in {"generate_header_title", "video_builder.generate_header_title"} =>
        last.title = TitleByContract(last.video_file, last.mime, last.resolution, last.rate)

-----------------------------------------------------------------------------
(* The command line: main() builds a BuilderConfig from the arguments and  *)
(* calls build(config).                                                    *)

MY_CATALOG == <<"my", "_catalog.json">>

Parsed(catalog_filename, codec) ==
    [codec |-> codec, catalog_filename |-> catalog_filename,
     status |-> "constructed", op |-> "BuilderConfig"]

\* main(): parse_args and BuilderConfig(...)
Configure(catalog_filename, codec, append_index) ==
    /\ stage = "idle"
    /\ last.op # "BuilderConfig"
    /\ runs < MaxRuns
    /\ config' = BuilderConfig(catalog_filename, codec, append_index)
    /\ last' = Parsed(catalog_filename, codec)
    /\ UNCHANGED <<tree, listing, manifest_dir, root_files, stage, video_files,
                   manifest_paths, todo, playlist_paths, catalog_path, next_uuid, runs,
                   snapshot>>

\* main(): build(config)
Start == last.op = "BuilderConfig" /\ BuildStart(config)

NextMain ==
    \/ \E catalog_filename \in {NoName, MY_CATALOG}, codec \in Codecs,
          append_index \in BOOLEAN : Configure(catalog_filename, codec, append_index)
    \/ Start
    \/ Step1
    \/ Step2
    \/ Step3
    \/ Step4

\* input folders with videos of two codecs
MainFolders ==
    {{Dir(<<>>), Dir(<<MEDIA>>)} \cup fs \cup Parents(fs) :
        fs \in SUBSET {File(<<MEDIA, AV1, <<"clip", ".mp4">> >>, 1000, Probed("av1"), TRUE),
                       File(<<MEDIA, AV1, <<"other", ".mp4">> >>, 2000, Probed("av1"), TRUE),
                       File(<<MEDIA, VP9, <<"clip", ".mp4">> >>, 3000, Probed("vp9"), TRUE)}}

InitMain ==
    /\ tree \in MainFolders
    /\ \E vs \in Perms({f.path : f \in VideosOf(tree)}),
          ps \in Perms({PlaylistNameOf(tree, f) : f \in VideosOf(tree)}) :
            listing = [playlists |-> ps, catalogs |-> <<>>, videos |-> vs]
    /\ manifest_dir = [files |-> NoFiles, exists |-> FALSE]
    /\ root_files = NoFiles
    /\ config = BuilderConfig(NoName, NoCodec, FALSE)
    /\ stage = "idle"
    /\ video_files = <<>>
    /\ manifest_paths = <<>>
    /\ todo = <<>>
    /\ playlist_paths = <<>>
    /\ catalog_path = NoPath
    /\ last = [status |-> "none", op |-> "none"]
    /\ next_uuid = 1
    /\ runs = 0
    /\ snapshot = NoSnapshot

SpecMain == InitMain /\ [][NextMain]_vars

\* the files of the input folder below a directory
Under(t, dir) == {f.path : f \in {v \in VideosOf(t) : IsPrefix(dir, v.path)}}

(* C12: with a codec filter c and no explicit catalog file name the        *)
(* catalog file name is vcat_c_testvector_playlist_catalog.json, and an    *)
(* explicit catalog file name is used whatever the codec; discovery        *)
(* returns files under media/c only, and the catalog of the build is       *)
(* written under that file name in the root.                               *)
C12_CodecFilter ==
    /\ [](last.op = "BuilderConfig" =>
            /\ config.codec = last.codec
            /\ config.catalog_filename =
                  IF last.catalog_filename # NoName THEN last.catalog_filename
                  ELSE IF last.codec # NoCodec
                       THEN <<"vcat_", last.codec, "_testvector_playlist", "_catalog.json">>
                       ELSE CATALOG_FILENAME)
    /\ [][/\ (last.op = "BuilderConfig" /\ last'.status = "running" /\ config.codec # NoCodec)
             => /\ \A k \in DOMAIN video_files' :
                      IsPrefix(InputFolder \o <<MEDIA, <<config.codec>> >>, video_files'[k])
                /\ {video_files'[k] : k \in DOMAIN video_files'}
                      \subseteq Under(tree, InputFolder \o <<MEDIA, <<config.codec>> >>)
          /\ WritesCatalog =>
                /\ catalog_path' = config.catalog_filename
                /\ \A n \in CatalogFiles(root_files') :
                      n # config.catalog_filename =>
                          n \in DOMAIN root_files /\ root_files'[n] = root_files[n]]_vars

C12_Witness ==
    /\ stage = "idle"
    /\ last.status = "exit 0"
    /\ config.codec = "av1"
    /\ config.catalog_filename = MY_CATALOG
    /\ \E f \in VideosOf(tree) : f.path[3] = VP9
    /\ manifest_paths # <<>>
    /\ {MY_CATALOG, <<"vcat_", "av1", "_testvector_playlist", "_catalog.json">>}
          \subseteq DOMAIN root_files

\* the folder the last discovery was asked to search
Searched ==
    IF last.op = "discover" THEN media_folder(config) ELSE InputFolder \o <<MEDIA>>

(* C13 as stated: discovery on a folder that does not exist fails with a   *)
(* not-found error, on a folder that cannot be read with a permission      *)
(* error; it does not return a list in either case.                        *)
C13_DiscoveryFails ==
    last.op \in {"discover", "video_builder.discover"} =>
        /\ ~Exists(tree, Searched) => last.status = "FileNotFoundError"
        /\ (Exists(tree, Searched) /\ ~Access(tree, Searched))
              => last.status = "PermissionError"

-----------------------------------------------------------------------------
(* Metadata extraction on its own: get_video_details called on what the    *)
(* tool may print.                                                         *)

\* matches of "Duration: HH:MM:SS.CC", each as four groups of two digits
DurationMatches ==
    {<< <<0, 1>>, <<0, 2>>, <<0, 3>>, <<4, 5>> >>,
     << <<0, 0>>, <<0, 0>>, <<1, 0>>, <<0, 4>> >>,
     << <<9, 9>>, <<5, 9>>, <<5, 9>>, <<9, 9>> >>,
     << <<0, 0>>, <<0, 0>>, <<0, 0>>, <<0, 0>> >>}

MaxMatches == 2

ToolOutputs ==
    {[video |-> v, durations |-> d, resolutions |-> r, fps |-> f] :
        v \in {{}, {"av1"}, {"vp9"}},
        d \in SeqsUpTo(DurationMatches, MaxMatches),
        r \in {<<>>, << <<"1920", "1080">> >>},
        f \in {<<>>, <<"30.00">>}}

\* get_video_details(file_path) on a file for which the tool behaves as probe
Details(probe) ==
    /\ runs < MaxRuns
    /\ runs' = runs + 1
    /\ last' = [probe |-> probe, status |-> "returned", op |-> "get_video_details",
                details |-> get_video_details(probe)]
    /\ UNCHANGED <<tree, listing, manifest_dir, root_files, config, stage, video_files,
                   manifest_paths, todo, playlist_paths, catalog_path, next_uuid,
                   snapshot>>

NextDetails ==
    \/ \E stderr \in ToolOutputs, returncode \in {0, 1} :
          Details([stderr |-> stderr, launch |-> "ok", returncode |-> returncode])
    \/ Details(NotProbed)

SpecDetails == InitTitle /\ [][NextDetails]_vars

(* C14: when the output of the tool holds a match of Duration:             *)
(* HH:MM:SS.CC, duration_ms is ((H*3600 + M*60 + S) * 1000) + C*10 for the *)
(* first match, 3723450 for 01:02:03.45; without a match duration_ms is    *)
(* null and get_video_details returns as usual.                            *)
C14_DurationParsed ==
    (last.op = "get_video_details" /\ last.probe.launch = "ok") =>
        LET d == last.probe.stderr.durations
        IN  /\ d # <<>> =>
                 LET H == 10 * d[1][1][1] + d[1][1][2]
                     M == 10 * d[1][2][1] + d[1][2][2]
                     S == 10 * d[1][3][1] + d[1][3][2]
                     C == 10 * d[1][4][1] + d[1][4][2]
                 IN  /\ last.details.duration_ms
                           = PyInt(((H * 3600 + M * 60 + S) * 1000) + C * 10)
                     /\ (H = 1 /\ M = 2 /\ S = 3 /\ C = 45)
                           => last.details.duration_ms = PyInt(3723450)
            /\ d = <<>> =>
                 /\ last.details.duration_ms = PyNone
                 /\ last.details.codec.s \in {<<"video/", "av1">>,
                                              <<"video/mp4; codecs=\"", "vp09", "\"">>,
                                              <<"Unknown">>}

C14_Witness ==
    /\ last.op = "get_video_details"
    /\ last.probe.launch = "ok"
    /\ Len(last.probe.stderr.durations) = 2
    /\ last.probe.stderr.durations[1] = << <<0, 1>>, <<0, 2>>, <<0, 3>>, <<4, 5>> >>
    /\ last.probe.stderr.durations[2] = << <<0, 0>>, <<0, 0>>, <<1, 0>>, <<0, 4>> >>
    /\ last.details.duration_ms = PyInt(3723450)

-----------------------------------------------------------------------------
(* Further properties of the index pass, checked on SpecPasses *)

\* every entry of the index is an object with a url, and no two entries
\* have the same url
DistinctUrls(rfiles) ==
    /\ HasEntries(rfiles)
    /\ \A j, k \in DOMAIN Items(rfiles) :
          Items(rfiles)[j].url = Items(rfiles)[k].url => j = k

(* C15: when generate_index finds no index file, or an index whose entries *)
(* are objects with pairwise distinct urls, the index it writes, in append *)
(* mode or not, has entries with pairwise distinct urls again; so the      *)
(* property is kept along every sequence of runs.                          *)
C15_UrlsStayDistinct ==
    (/\ Indexed
     /\ \/ INDEX_FILENAME \notin DOMAIN snapshot.rfiles
        \/ DistinctUrls(snapshot.rfiles))
        => DistinctUrls(root_files)

C15_Witness ==
    /\ runs = 2
    /\ Indexed /\ last.append
    /\ snapshot.status = "written"
    /\ DistinctUrls(snapshot.rfiles)
    /\ Len(Items(snapshot.rfiles)) = 2
    /\ UrlOf(last.catalog) \in Urls(snapshot.rfiles)
    /\ DistinctUrls(root_files)
    /\ Len(Items(root_files)) = 2

\* an existing entry that the new entry does not replace
Differs(e) == ~(IsDict(e) /\ "url" \in DOMAIN e /\ e.url = NewEntry.url)

\* the entries of the index before the call
OldItems == IF HasList(snapshot.rfiles) THEN Items(snapshot.rfiles) ELSE <<>>

\* the index before the call has a "catalogs" value that is no list
NoEntryList(rfiles) ==
    /\ INDEX_FILENAME \in DOMAIN rfiles
    /\ rfiles[INDEX_FILENAME].json = "object"
    /\ "catalogs" \in DOMAIN rfiles[INDEX_FILENAME].obj
    /\ rfiles[INDEX_FILENAME].obj.catalogs.t # "list"

-----------------------------------------------------------------------------
(* Further properties of the build pipeline, checked on Spec *)

\* the playlist file an asset record of a catalog refers to
PlaylistAt(url) == SubSeq(url, 2, Len(url))

\* the asset record agrees with the playlist file now on disk at its url
Current(asset) ==
    /\ asset.url[1] = "./manifests/"
    /\ PlaylistAt(asset.url) \in DOMAIN manifest_dir.files
    /\ LET file == manifest_dir.files[PlaylistAt(asset.url)]
       IN  /\ asset.checksum = getChecksum(file)
           /\ asset.length_bytes = FileSize(file)
           /\ asset.uuid = file.obj.vcat_testvector_header.uuid

\* the catalog files the index lists
IndexedCatalogs ==
    IF HasEntries(root_files)
    THEN {n \in CatalogFiles(root_files) : UrlOf(n) \in Urls(root_files)}
    ELSE {}

(* C17 as stated: after every build of a sequence of builds over the same  *)
(* root, each playlist asset of each catalog that the index lists has the  *)
(* checksum, length_bytes and uuid of the playlist file on disk at its url. *)
C17_ReferencesCurrent ==
    (stage = "idle" /\ last.status = "exit 0") =>
        \A n \in IndexedCatalogs :
            \A k \in DOMAIN root_files[n].obj.playlists :
                Current(root_files[n].obj.playlists[k])

(* C18 as stated: the catalog a build writes holds a playlist asset for    *)
(* each playlist that this build generated and for no other playlist file  *)
(* of the manifests directory.                                             *)
C18_OwnPlaylistsOnly ==
    (stage = "idle" /\ last.status = "exit 0" /\ catalog_path # NoPath) =>
        AssetUrls(root_files[catalog_path].obj.playlists)
            = {<<"./manifests/">> \o playlist_paths[k] : k \in DOMAIN playlist_paths}

-----------------------------------------------------------------------------
(* Builds over a root that holds the catalogs and the index of earlier     *)
(* builds while its manifests directory holds no playlist.                 *)

RebuildFolders ==
    {{Dir(<<>>), Dir(<<MEDIA>>)} \cup fs \cup Parents(fs) :
        fs \in {{},
                {File(<<MEDIA, AV1, <<"locked", ".mp4">> >>, 5000, Probed("av1"), FALSE)},
                {File(<<MEDIA, AV1, <<"clip", ".mp4">> >>, 1000, Probed("av1"), TRUE)}}}

\* what earlier builds left in the manifests directory
ManifestDirs ==
    {[files |-> NoFiles, exists |-> FALSE],
     [files |-> NoFiles, exists |-> TRUE],
     [files |-> Put(NoFiles, <<"notes", ".txt">>, Invalid), exists |-> TRUE]}

IndexesLeft ==
    {Array, Invalid,
     Obj([vcat_testvector_header |-> IndexHeader,
          catalogs |-> JList(<<CatalogAssetOf(Put(NoFiles, CatA, ACatalog(NoCodec, 1)), CatA),
                               CatalogAssetOf(Put(NoFiles, CatB, ACatalog("av1", 1)), CatB)>>)])}

InitRebuild ==
    /\ tree \in RebuildFolders
    /\ \E vs \in Perms({f.path : f \in VideosOf(tree)}),
          ps \in Perms({PlaylistNameOf(tree, f) : f \in {v \in VideosOf(tree) : v.readable}}) :
            listing = [playlists |-> ps, catalogs |-> <<>>, videos |-> vs]
    /\ manifest_dir \in ManifestDirs
    /\ \E cs \in CatalogSets, ix \in IndexesLeft :
          root_files = IF ix = Array THEN cs ELSE Put(cs, INDEX_FILENAME, ix)
    /\ config = BuilderConfig(NoName, NoCodec, FALSE)
    /\ stage = "idle"
    /\ video_files = <<>>
    /\ manifest_paths = <<>>
    /\ todo = <<>>
    /\ playlist_paths = <<>>
    /\ catalog_path = NoPath
    /\ last = [status |-> "none", op |-> "none"]
    /\ next_uuid = 3
    /\ runs = 0
    /\ snapshot = NoSnapshot

SpecRebuild == InitRebuild /\ [][Next]_vars

(* C19: when the manifests directory holds no playlist file at the catalog *)
(* stage, generate_catalog returns no path and writes nothing, then        *)
(* generate_index returns no path and writes nothing: the catalog files    *)
(* and the index file on disk stay as they are, and the build ends.        *)
C19_NothingWithoutPlaylists ==
    [][/\ (stage = "catalog" /\ PlaylistFiles(manifest_dir.files) = {})
            => /\ catalog_path' = NoPath
               /\ root_files' = root_files
               /\ next_uuid' = next_uuid
               /\ stage' = "index"
       /\ (stage = "index" /\ catalog_path = NoPath)
            => /\ root_files' = root_files
               /\ next_uuid' = next_uuid
               /\ manifest_dir' = manifest_dir
               /\ last'.status = "exit 0"]_vars

C19_Witness ==
    /\ stage = "idle"
    /\ last.status = "exit 0"
    /\ catalog_path = NoPath
    /\ PlaylistFiles(manifest_dir.files) = {}
    /\ <<"notes", ".txt">> \in DOMAIN manifest_dir.files
    /\ CatB \in DOMAIN root_files
    /\ INDEX_FILENAME \in DOMAIN root_files
    /\ HasEntries(root_files)

=============================================================================
